---- MODULE Spec2Model ----
(***************************************************************************)
(* The subsa asset ledger (src/lib.rs): one ink! contract holding a        *)
(* fixed-total asset, its four roles and three per-account mappings.       *)
(* Every message of the contract is one action; the hosting environment    *)
(* supplies the caller and runs one message at a time.                     *)
(***************************************************************************)
EXTENDS Integers, Sequences, FiniteSets, TLC

(* ------------------------------ bounds --------------------------------- *)

\* Number of account identities; identity 0 is AccountId::from([0x0; 32]).
NumAccounts == 3

\* Largest value of the Balance type (u128 in the contract, narrowed here).
MaxBalance == 2

\* Capacity of the recorded event log (the Creation event included).
MaxEvents == 3

(* ------------------------------ types ---------------------------------- *)

Account == 0 .. (NumAccounts - 1)

ZeroId == 0

Balance == 0 .. MaxBalance

\* Option<T>: None is the empty set, Some(x) the singleton.
None == {}

Some(x) == {x}

unwrap_or(opt, default) == IF opt = None THEN default ELSE CHOOSE x \in opt : TRUE

\* Role arguments offered to new and modify_asset.  Some(ZeroId) is left out:
\* unwrap_or makes it the same call as None.  The last account is never
\* offered as a role, so that an identity holding no role always exists.
RoleArg == {None} \cup {Some(a) : a \in 1 .. (NumAccounts - 2)}

\* The Error enum.
Error == {"NotManagerId", "NotReserveId", "NotFreezeId", "NotClawbackId",
          "NotOptedIn", "AlreadyOptedIn", "NotFrozen", "NotFreezable",
          "AlreadyFrozen", "FrozenAccount", "NotEnoughBalance",
          "NotAllAssetsOwnedByManager", "ZeroAmount"}

\* The value `()` of a message that returns Result<(), Error>.
Unit == -1

(* ------------------------------ state ---------------------------------- *)

VARIABLES
    creator,            \* immutable asset params
    total,
    default_frozen,
    manager_id,         \* mutable asset params
    reserve_id,
    freeze_id,
    clawback_id,
    balances,           \* Mapping<AccountId, Balance>: a partial function
    accounts_opted_in,  \* Mapping<AccountId, bool>
    frozen_holders,     \* Mapping<AccountId, bool>
    events,             \* events emitted so far, in order
    live,               \* FALSE once terminate_contract has run
    msg,                \* the last message invoked,
    who,                \*   its caller (self.env().caller()),
    args,               \*   its arguments,
    before,             \*   the state it was invoked in,
    result,             \*   its outcome: "Ok", a member of Error, or "Panic",
    value               \*   and the value inside Ok

roles == <<manager_id, reserve_id, freeze_id, clawback_id>>

params == <<creator, total, default_frozen>>

maps == <<balances, accounts_opted_in, frozen_holders>>

ledger == <<params, roles, maps, live>>

call == <<msg, who, args, before, result, value>>

vars == <<ledger, events, call>>

\* The state of the contract and of its environment, as one value.
Snapshot ==
    [params |-> params, balances |-> balances,
     accounts_opted_in |-> accounts_opted_in,
     frozen_holders |-> frozen_holders, roles |-> roles, live |-> live,
     events |-> events]

(* ------------------------------ Mapping -------------------------------- *)

\* Mapping::get(key).unwrap_or(default)
Get(m, k, default) == IF k \in DOMAIN m THEN m[k] ELSE default

\* Mapping::insert(key, value)
Insert(m, k, v) == [x \in (DOMAIN m) \cup {k} |-> IF x = k THEN v ELSE m[x]]

\* Mapping::default()
EmptyMapping == [x \in {} |-> 0]

(* ------------------------------ helpers -------------------------------- *)

\* self.env().account_id(): the address of the contract itself.
asset_id == "contract"

\* self.env().emit_event(e)
emit_event(e) == events' = Append(events, e)

\* The messages that write to the ledger.
Mutating == {"opt_in", "opt_out", "transfer", "freeze", "modify_asset",
             "revoke_asset", "destroy_asset"}

\* The hosting environment delivers a message only while the contract exists
\* and the recorded log has room for the event a success would emit.  A run is
\* continued only from a state that the last message changed: an error, a panic
\* and a read leave the ledger and the log as they found them, so every message
\* that can follow one of them can follow the state it started from, and leads
\* to the same state.
Accepts ==
    /\ live
    /\ Len(events) < MaxEvents
    /\ msg = "new" \/ (msg \in Mutating /\ result = "Ok")

\* The environment invokes message m for caller c with arguments a.
Invoke(m, c, a) ==
    /\ msg' = m
    /\ who' = c
    /\ args' = a
    /\ before' = Snapshot

\* `return Err(e)`: nothing was written and nothing was emitted.
Err(e) ==
    /\ result' = e
    /\ value' = Unit
    /\ UNCHANGED <<ledger, events>>

\* `Ok(v)`
Ok(v) ==
    /\ result' = "Ok"
    /\ value' = v

\* An arithmetic overflow in a build with overflow checks: the message panics,
\* the environment reverts every write and delivers nothing.
Panic ==
    /\ result' = "Panic"
    /\ value' = Unit
    /\ UNCHANGED <<ledger, events>>

\* a + b in the Balance type in a build that wraps on overflow.
wrapping_add(a, b) == (a + b) % (MaxBalance + 1)

(* ---------------------------- constructor ------------------------------ *)

\* new with the zero identity, not the caller, as the default reserve.
new_ReserveDefaultsToZero(caller, total_, default_frozen_, manager, reserve, freeze_, clawback) ==
    LET reserve_ == unwrap_or(reserve, ZeroId) IN
    /\ events = << [kind |-> "Creation", asset_id |-> asset_id,
                    creator |-> caller, total |-> total_] >>
    /\ creator = caller
    /\ total = total_
    /\ default_frozen = default_frozen_
    /\ manager_id = unwrap_or(manager, ZeroId)
    /\ reserve_id = reserve_
    /\ freeze_id = unwrap_or(freeze_, ZeroId)
    /\ clawback_id = unwrap_or(clawback, ZeroId)
    /\ balances = Insert(EmptyMapping, reserve_, total_)
    /\ accounts_opted_in = Insert(EmptyMapping, reserve_, TRUE)
    /\ frozen_holders = EmptyMapping
    /\ live = TRUE
    /\ msg = "new"
    /\ who = caller
    /\ args = [total |-> total_, default_frozen |-> default_frozen_,
               manager |-> manager, reserve |-> reserve, freeze |-> freeze_,
               clawback |-> clawback]
    /\ before = [params |-> <<caller, total_, default_frozen_>>,
                 balances |-> EmptyMapping, accounts_opted_in |-> EmptyMapping,
                 frozen_holders |-> EmptyMapping,
                 roles |-> <<ZeroId, ZeroId, ZeroId, ZeroId>>, live |-> FALSE,
                 events |-> << >>]
    /\ result = "Ok"
    /\ value = Unit

new(caller, total_, default_frozen_, manager, reserve, freeze_, clawback) ==
    LET reserve_ == unwrap_or(reserve, caller) IN
    /\ events = << [kind |-> "Creation", asset_id |-> asset_id,
                    creator |-> caller, total |-> total_] >>
    /\ creator = caller
    /\ total = total_
    /\ default_frozen = default_frozen_
    /\ manager_id = unwrap_or(manager, ZeroId)
    /\ reserve_id = reserve_
    /\ freeze_id = unwrap_or(freeze_, ZeroId)
    /\ clawback_id = unwrap_or(clawback, ZeroId)
    /\ balances = Insert(EmptyMapping, reserve_, total_)
    /\ accounts_opted_in = Insert(EmptyMapping, reserve_, TRUE)
    /\ frozen_holders = EmptyMapping
    /\ live = TRUE
    /\ msg = "new"
    /\ who = caller
    /\ args = [total |-> total_, default_frozen |-> default_frozen_,
               manager |-> manager, reserve |-> reserve, freeze |-> freeze_,
               clawback |-> clawback]
    /\ before = [params |-> <<caller, total_, default_frozen_>>,
                 balances |-> EmptyMapping, accounts_opted_in |-> EmptyMapping,
                 frozen_holders |-> EmptyMapping,
                 roles |-> <<ZeroId, ZeroId, ZeroId, ZeroId>>, live |-> FALSE,
                 events |-> << >>]
    /\ result = "Ok"
    /\ value = Unit

Init ==
    \E caller \in Account, total_ \in Balance, default_frozen_ \in BOOLEAN,
       manager \in RoleArg, reserve \in RoleArg, freeze_ \in RoleArg,
       clawback \in RoleArg :
        new(caller, total_, default_frozen_, manager, reserve, freeze_, clawback)

(* ------------------------------ accessors ------------------------------ *)

is_frozen(account) == Get(frozen_holders, account, FALSE)

is_opted_in(account) == Get(accounts_opted_in, account, FALSE)

is_destroyable == Get(balances, creator, 0) = total

\* balance_of without its opt-in check.
balance_of_NoOptInCheck(caller, account) ==
    /\ Invoke("balance_of", caller, [account |-> account])
    /\ Ok(Get(balances, account, 0))
    /\ UNCHANGED <<ledger, events>>

balance_of(caller, account) ==
    /\ Invoke("balance_of", caller, [account |-> account])
    /\ IF ~Get(accounts_opted_in, account, FALSE)
       THEN Err("NotOptedIn")
       ELSE /\ Ok(Get(balances, account, 0))
            /\ UNCHANGED <<ledger, events>>

(* ------------------------------ messages ------------------------------- *)

\* opt_in without its AlreadyOptedIn check.
opt_in_NoCheck(caller) ==
    /\ Invoke("opt_in", caller, << >>)
    /\ accounts_opted_in' = Insert(accounts_opted_in, caller, TRUE)
    /\ emit_event([kind |-> "OptIn", asset_id |-> asset_id, account |-> caller])
    /\ Ok(Unit)
    /\ UNCHANGED <<params, roles, balances, frozen_holders, live>>

opt_in(caller) ==
    /\ Invoke("opt_in", caller, << >>)
    /\ IF Get(accounts_opted_in, caller, FALSE)
       THEN Err("AlreadyOptedIn")
       ELSE /\ accounts_opted_in' = Insert(accounts_opted_in, caller, TRUE)
            /\ emit_event([kind |-> "OptIn", asset_id |-> asset_id, account |-> caller])
            /\ Ok(Unit)
            /\ UNCHANGED <<params, roles, balances, frozen_holders, live>>

\* opt_out without its NotOptedIn check.
opt_out_NoCheck(caller) ==
    /\ Invoke("opt_out", caller, << >>)
    /\ accounts_opted_in' = Insert(accounts_opted_in, caller, FALSE)
    /\ emit_event([kind |-> "OptOut", asset_id |-> asset_id, account |-> caller])
    /\ Ok(Unit)
    /\ UNCHANGED <<params, roles, balances, frozen_holders, live>>

\* opt_out emitting the notification of opt_in.
opt_out_EmitsOptIn(caller) ==
    /\ Invoke("opt_out", caller, << >>)
    /\ IF ~Get(accounts_opted_in, caller, FALSE)
       THEN Err("NotOptedIn")
       ELSE /\ accounts_opted_in' = Insert(accounts_opted_in, caller, FALSE)
            /\ emit_event([kind |-> "OptIn", asset_id |-> asset_id, account |-> caller])
            /\ Ok(Unit)
            /\ UNCHANGED <<params, roles, balances, frozen_holders, live>>

\* opt_out dropping the caller's balance with the opt-in.
opt_out_ZeroesBalance(caller) ==
    /\ Invoke("opt_out", caller, << >>)
    /\ IF ~Get(accounts_opted_in, caller, FALSE)
       THEN Err("NotOptedIn")
       ELSE /\ accounts_opted_in' = Insert(accounts_opted_in, caller, FALSE)
            /\ balances' = Insert(balances, caller, 0)
            /\ emit_event([kind |-> "OptOut", asset_id |-> asset_id, account |-> caller])
            /\ Ok(Unit)
            /\ UNCHANGED <<params, roles, frozen_holders, live>>

opt_out(caller) ==
    /\ Invoke("opt_out", caller, << >>)
    /\ IF ~Get(accounts_opted_in, caller, FALSE)
       THEN Err("NotOptedIn")
       ELSE /\ accounts_opted_in' = Insert(accounts_opted_in, caller, FALSE)
            /\ emit_event([kind |-> "OptOut", asset_id |-> asset_id, account |-> caller])
            /\ Ok(Unit)
            /\ UNCHANGED <<params, roles, balances, frozen_holders, live>>

\* transfer writing the sender's new balance before it checks the receiver.
transfer_DebitsBeforeCheck(caller, receiver, amount) ==
    LET sender_balance == Get(balances, caller, 0)
        debited == Insert(balances, caller, sender_balance - amount)
        receiver_balance == Get(debited, receiver, 0)
    IN
    /\ Invoke("transfer", caller, [receiver |-> receiver, amount |-> amount])
    /\ IF sender_balance < amount
       THEN Err("NotEnoughBalance")
       ELSE IF ~Get(accounts_opted_in, receiver, FALSE)
       THEN /\ balances' = debited
            /\ result' = "NotOptedIn"
            /\ value' = Unit
            /\ UNCHANGED <<params, roles, accounts_opted_in, frozen_holders, live, events>>
       ELSE /\ balances' = Insert(debited, receiver,
                                  wrapping_add(receiver_balance, amount))
            /\ emit_event([kind |-> "Transfer", sender |-> caller,
                           receiver |-> receiver, asset_id |-> asset_id,
                           amount |-> Some(amount)])
            /\ Ok(Unit)
            /\ UNCHANGED <<params, roles, accounts_opted_in, frozen_holders, live>>

\* transfer without its check that the receiver has opted in.
transfer_NoOptInCheck(caller, receiver, amount) ==
    LET sender_balance == Get(balances, caller, 0)
        debited == Insert(balances, caller, sender_balance - amount)
        receiver_balance == Get(debited, receiver, 0)
    IN
    /\ Invoke("transfer", caller, [receiver |-> receiver, amount |-> amount])
    /\ IF sender_balance < amount
       THEN Err("NotEnoughBalance")
       ELSE /\ balances' = Insert(debited, receiver,
                                  wrapping_add(receiver_balance, amount))
            /\ emit_event([kind |-> "Transfer", sender |-> caller,
                           receiver |-> receiver, asset_id |-> asset_id,
                           amount |-> Some(amount)])
            /\ Ok(Unit)
            /\ UNCHANGED <<params, roles, accounts_opted_in, frozen_holders, live>>

\* transfer refusing a frozen sender.
transfer_ChecksFrozen(caller, receiver, amount) ==
    LET sender_balance == Get(balances, caller, 0)
        debited == Insert(balances, caller, sender_balance - amount)
        receiver_balance == Get(debited, receiver, 0)
        done(credited) ==
            /\ balances' = Insert(debited, receiver, credited)
            /\ emit_event([kind |-> "Transfer", sender |-> caller,
                           receiver |-> receiver, asset_id |-> asset_id,
                           amount |-> Some(amount)])
            /\ Ok(Unit)
            /\ UNCHANGED <<params, roles, accounts_opted_in, frozen_holders, live>>
    IN
    /\ Invoke("transfer", caller, [receiver |-> receiver, amount |-> amount])
    /\ IF Get(frozen_holders, caller, FALSE)
       THEN Err("FrozenAccount")
       ELSE IF sender_balance < amount
       THEN Err("NotEnoughBalance")
       ELSE IF ~Get(accounts_opted_in, receiver, FALSE)
       THEN Err("NotOptedIn")
       ELSE IF receiver_balance + amount <= MaxBalance
       THEN done(receiver_balance + amount)
       ELSE \/ Panic
            \/ done(wrapping_add(receiver_balance, amount))

transfer(caller, receiver, amount) ==
    LET sender_balance == Get(balances, caller, 0)
        debited == Insert(balances, caller, sender_balance - amount)
        receiver_balance == Get(debited, receiver, 0)
        done(credited) ==
            /\ balances' = Insert(debited, receiver, credited)
            /\ emit_event([kind |-> "Transfer", sender |-> caller,
                           receiver |-> receiver, asset_id |-> asset_id,
                           amount |-> Some(amount)])
            /\ Ok(Unit)
            /\ UNCHANGED <<params, roles, accounts_opted_in, frozen_holders, live>>
    IN
    /\ Invoke("transfer", caller, [receiver |-> receiver, amount |-> amount])
    /\ IF sender_balance < amount
       THEN Err("NotEnoughBalance")
       ELSE IF ~Get(accounts_opted_in, receiver, FALSE)
       THEN Err("NotOptedIn")
       ELSE IF receiver_balance + amount <= MaxBalance
       THEN done(receiver_balance + amount)
       ELSE \/ Panic
            \/ done(wrapping_add(receiver_balance, amount))

\* freeze without its check of the default_frozen policy.
freeze_NoPolicyCheck(caller, account, freeze_) ==
    /\ Invoke("freeze", caller, [account |-> account, freeze |-> freeze_])
    /\ IF caller # freeze_id
       THEN Err("NotFreezeId")
       ELSE IF Get(frozen_holders, account, FALSE)
       THEN Err("AlreadyFrozen")
       ELSE /\ frozen_holders' = Insert(frozen_holders, account, freeze_)
            /\ emit_event([kind |-> "Freeze", asset_id |-> asset_id,
                           account |-> account, freeze |-> freeze_,
                           freeze_id |-> freeze_id])
            /\ Ok(Unit)
            /\ UNCHANGED <<params, roles, balances, accounts_opted_in, live>>

\* freeze without its check that the account is already frozen.
freeze_NoAlreadyFrozenCheck(caller, account, freeze_) ==
    /\ Invoke("freeze", caller, [account |-> account, freeze |-> freeze_])
    /\ IF ~default_frozen
       THEN Err("NotFreezable")
       ELSE IF caller # freeze_id
       THEN Err("NotFreezeId")
       ELSE /\ frozen_holders' = Insert(frozen_holders, account, freeze_)
            /\ emit_event([kind |-> "Freeze", asset_id |-> asset_id,
                           account |-> account, freeze |-> freeze_,
                           freeze_id |-> freeze_id])
            /\ Ok(Unit)
            /\ UNCHANGED <<params, roles, balances, accounts_opted_in, live>>

freeze(caller, account, freeze_) ==
    /\ Invoke("freeze", caller, [account |-> account, freeze |-> freeze_])
    /\ IF ~default_frozen
       THEN Err("NotFreezable")
       ELSE IF caller # freeze_id
       THEN Err("NotFreezeId")
       ELSE IF Get(frozen_holders, account, FALSE)
       THEN Err("AlreadyFrozen")
       ELSE /\ frozen_holders' = Insert(frozen_holders, account, freeze_)
            /\ emit_event([kind |-> "Freeze", asset_id |-> asset_id,
                           account |-> account, freeze |-> freeze_,
                           freeze_id |-> freeze_id])
            /\ Ok(Unit)
            /\ UNCHANGED <<params, roles, balances, accounts_opted_in, live>>

\* modify_asset without its check that the caller is the manager.
modify_asset_NoManagerCheck(caller, manager, reserve, freeze_, clawback) ==
    /\ Invoke("modify_asset", caller,
              [manager |-> manager, reserve |-> reserve, freeze |-> freeze_,
               clawback |-> clawback])
    /\ manager_id' = unwrap_or(manager, ZeroId)
    /\ reserve_id' = unwrap_or(reserve, ZeroId)
    /\ freeze_id' = unwrap_or(freeze_, ZeroId)
    /\ clawback_id' = unwrap_or(clawback, ZeroId)
    /\ emit_event([kind |-> "Modify", manager_id |-> manager_id',
                   reserve_id |-> reserve_id', freeze_id |-> freeze_id',
                   clawback_id |-> clawback_id'])
    /\ Ok(Unit)
    /\ UNCHANGED <<params, maps, live>>

\* modify_asset keeping the previous value of every omitted role.
modify_asset_KeepsOmitted(caller, manager, reserve, freeze_, clawback) ==
    /\ Invoke("modify_asset", caller,
              [manager |-> manager, reserve |-> reserve, freeze |-> freeze_,
               clawback |-> clawback])
    /\ IF caller # manager_id
       THEN Err("NotManagerId")
       ELSE /\ manager_id' = unwrap_or(manager, manager_id)
            /\ reserve_id' = unwrap_or(reserve, reserve_id)
            /\ freeze_id' = unwrap_or(freeze_, freeze_id)
            /\ clawback_id' = unwrap_or(clawback, clawback_id)
            /\ emit_event([kind |-> "Modify", manager_id |-> manager_id',
                           reserve_id |-> reserve_id', freeze_id |-> freeze_id',
                           clawback_id |-> clawback_id'])
            /\ Ok(Unit)
            /\ UNCHANGED <<params, maps, live>>

modify_asset(caller, manager, reserve, freeze_, clawback) ==
    /\ Invoke("modify_asset", caller,
              [manager |-> manager, reserve |-> reserve, freeze |-> freeze_,
               clawback |-> clawback])
    /\ IF caller # manager_id
       THEN Err("NotManagerId")
       ELSE /\ manager_id' = unwrap_or(manager, ZeroId)
            /\ reserve_id' = unwrap_or(reserve, ZeroId)
            /\ freeze_id' = unwrap_or(freeze_, ZeroId)
            /\ clawback_id' = unwrap_or(clawback, ZeroId)
            /\ emit_event([kind |-> "Modify", manager_id |-> manager_id',
                           reserve_id |-> reserve_id', freeze_id |-> freeze_id',
                           clawback_id |-> clawback_id'])
            /\ Ok(Unit)
            /\ UNCHANGED <<params, maps, live>>

\* revoke_asset checking the opt-in of recovation_target, not of receiver.
revoke_asset_ChecksTarget(caller, receiver, recovation_target, amount) ==
    LET receiver_balance == Get(balances, receiver, 0)
        debited == Insert(balances, recovation_target, receiver_balance - amount)
    IN
    /\ Invoke("revoke_asset", caller,
              [receiver |-> receiver, recovation_target |-> recovation_target,
               amount |-> amount])
    /\ IF caller # clawback_id
       THEN Err("NotClawbackId")
       ELSE IF ~Get(accounts_opted_in, recovation_target, FALSE)
       THEN Err("NotOptedIn")
       ELSE IF receiver_balance < amount
       THEN Err("NotEnoughBalance")
       ELSE /\ balances' = Insert(debited, receiver,
                                  wrapping_add(receiver_balance, amount))
            /\ emit_event([kind |-> "Revoke", asset_id |-> asset_id,
                           from |-> receiver, amount |-> Some(amount),
                           clawback_id |-> clawback_id])
            /\ Ok(Unit)
            /\ UNCHANGED <<params, roles, accounts_opted_in, frozen_holders, live>>

revoke_asset(caller, receiver, recovation_target, amount) ==
    LET receiver_balance == Get(balances, receiver, 0)
        debited == Insert(balances, recovation_target, receiver_balance - amount)
        done(credited) ==
            /\ balances' = Insert(debited, receiver, credited)
            /\ emit_event([kind |-> "Revoke", asset_id |-> asset_id,
                           from |-> receiver, amount |-> Some(amount),
                           clawback_id |-> clawback_id])
            /\ Ok(Unit)
            /\ UNCHANGED <<params, roles, accounts_opted_in, frozen_holders, live>>
    IN
    /\ Invoke("revoke_asset", caller,
              [receiver |-> receiver, recovation_target |-> recovation_target,
               amount |-> amount])
    /\ IF caller # clawback_id
       THEN Err("NotClawbackId")
       ELSE IF ~Get(accounts_opted_in, receiver, FALSE)
       THEN Err("NotOptedIn")
       ELSE IF receiver_balance < amount
       THEN Err("NotEnoughBalance")
       ELSE IF receiver_balance + amount <= MaxBalance
       THEN done(receiver_balance + amount)
       ELSE \/ Panic
            \/ done(wrapping_add(receiver_balance, amount))

\* destroy_asset without its check of the manager's balance.
destroy_asset_NoBalanceCheck(caller) ==
    /\ Invoke("destroy_asset", caller, << >>)
    /\ IF caller # manager_id
       THEN Err("NotManagerId")
       ELSE /\ emit_event([kind |-> "Destruction", asset_id |-> asset_id,
                           destroyer |-> manager_id])
            /\ live' = FALSE
            /\ Ok(Unit)
            /\ UNCHANGED <<params, roles, maps>>

\* destroy_asset terminating the contract before its checks.
destroy_asset_TerminatesFirst(caller) ==
    /\ Invoke("destroy_asset", caller, << >>)
    /\ live' = FALSE
    /\ UNCHANGED <<params, roles, maps>>
    /\ IF caller # manager_id
       THEN result' = "NotManagerId" /\ value' = Unit /\ UNCHANGED events
       ELSE IF Get(balances, manager_id, 0) # total
       THEN result' = "NotAllAssetsOwnedByManager" /\ value' = Unit
            /\ UNCHANGED events
       ELSE /\ emit_event([kind |-> "Destruction", asset_id |-> asset_id,
                           destroyer |-> manager_id])
            /\ Ok(Unit)

destroy_asset(caller) ==
    /\ Invoke("destroy_asset", caller, << >>)
    /\ IF caller # manager_id
       THEN Err("NotManagerId")
       ELSE IF Get(balances, manager_id, 0) # total
       THEN Err("NotAllAssetsOwnedByManager")
       ELSE /\ emit_event([kind |-> "Destruction", asset_id |-> asset_id,
                           destroyer |-> manager_id])
            /\ live' = FALSE
            /\ Ok(Unit)
            /\ UNCHANGED <<params, roles, maps>>

Next ==
    \/ Accepts /\ \E caller, account \in Account : balance_of(caller, account)
    \/ Accepts /\ \E caller \in Account : opt_in(caller)
    \/ Accepts /\ \E caller \in Account : opt_out(caller)
    \/ Accepts /\ \E caller, receiver \in Account, amount \in Balance :
            transfer(caller, receiver, amount)
    \/ Accepts /\ \E caller, account \in Account, freeze_ \in BOOLEAN :
            freeze(caller, account, freeze_)
    \/ Accepts /\ \E caller \in Account,
                      manager, reserve, freeze_, clawback \in RoleArg :
            modify_asset(caller, manager, reserve, freeze_, clawback)
    \/ Accepts /\ \E caller, receiver, recovation_target \in Account,
                      amount \in Balance :
            revoke_asset(caller, receiver, recovation_target, amount)
    \/ Accepts /\ \E caller \in Account : destroy_asset(caller)

Spec == Init /\ [][Next]_vars

(* ------------------------- reading a state ----------------------------- *)

\* The stored balance of an account in the mapping b, as every read path of
\* the contract takes it: b.get(&account).unwrap_or(0).
Stored(b, account) == Get(b, account, 0)

RECURSIVE SumOver(_, _)
SumOver(b, S) ==
    IF S = {} THEN 0
    ELSE LET x == CHOOSE y \in S : TRUE IN b[x] + SumOver(b, S \ {x})

\* The sum of the stored balances of all accounts.
SumBalances == SumOver(balances, DOMAIN balances)

\* The opted-in flag of an account when the last message was invoked.
OptedInBefore(account) == Get(before.accounts_opted_in, account, FALSE)

\* The roles when the last message was invoked.
ManagerBefore == before.roles[1]

FreezeBefore == before.roles[3]

ClawbackBefore == before.roles[4]

\* The last message left the ledger and the log as it found them.
NothingChanged == Snapshot = before

(* ------------------------------ claims --------------------------------- *)

\* C1: conservation of supply: in every reachable state the sum of the stored
\* balances of all accounts equals total.
C1_Conservation == SumBalances = total

\* C2: a successful transfer(receiver, amount) by caller c takes exactly amount
\* from c and gives exactly amount to receiver (no net change when receiver = c),
\* leaves every other balance, all opted-in flags, all frozen flags and the four
\* roles unchanged, and it succeeds exactly when c's balance >= amount and
\* receiver is opted in.
C2_TransferEffect ==
    msg = "transfer" =>
        LET c == who
            r == args.receiver
            a == args.amount
        IN
        /\ (result = "Ok") <=> (Stored(before.balances, c) >= a /\ OptedInBefore(r))
        /\ (result = "Ok") =>
            /\ \A x \in Account :
                Stored(balances, x) =
                    Stored(before.balances, x)
                    - (IF x = c THEN a ELSE 0) + (IF x = r THEN a ELSE 0)
            /\ accounts_opted_in = before.accounts_opted_in
            /\ frozen_holders = before.frozen_holders
            /\ roles = before.roles

\* C3: a successful revoke_asset(receiver, revocation_target, amount) takes
\* exactly amount from receiver and gives exactly amount to revocation_target,
\* leaving every other account's balance unchanged.
C3_RevokeEffect ==
    (msg = "revoke_asset" /\ result = "Ok") =>
        LET r == args.receiver
            t == args.recovation_target
            a == args.amount
        IN
        \A x \in Account :
            Stored(balances, x) =
                Stored(before.balances, x)
                - (IF x = r THEN a ELSE 0) + (IF x = t THEN a ELSE 0)

\* C4: all-or-nothing failure: whenever a mutating message returns an error, the
\* balances, opted-in flags, frozen flags, roles and the Live/Destroyed status
\* are what they were before the call, and no notification is emitted.
C4_AllOrNothing ==
    (msg \in Mutating /\ result \in Error) =>
        /\ balances = before.balances
        /\ accounts_opted_in = before.accounts_opted_in
        /\ frozen_holders = before.frozen_holders
        /\ roles = before.roles
        /\ live = before.live
        /\ events = before.events

\* A transfer of a positive amount that the sender holds, refused because the
\* receiver has not opted in, after an earlier message changed the ledger.
C4_Witness ==
    /\ msg = "transfer"
    /\ result = "NotOptedIn"
    /\ args.amount > 0
    /\ Len(events) = 2

\* C5 as first stated: freeze by anyone but the freeze role fails with
\* NotFreezeId, modify_asset and destroy_asset by anyone but the manager fail
\* with NotManagerId, revoke_asset by anyone but the clawback role fails with
\* NotClawbackId, and the four roles are unchanged after such a call.
C5_Authorization ==
    /\ (msg = "freeze" /\ who # FreezeBefore) =>
            (result = "NotFreezeId" /\ roles = before.roles)
    /\ (msg \in {"modify_asset", "destroy_asset"} /\ who # ManagerBefore) =>
            (result = "NotManagerId" /\ roles = before.roles)
    /\ (msg = "revoke_asset" /\ who # ClawbackBefore) =>
            (result = "NotClawbackId" /\ roles = before.roles)

\* C5, amended: as first stated, except that freeze by anyone but the freeze
\* role fails with NotFreezeId only on an asset with default_frozen = true; with
\* default_frozen = false it fails with NotFreezable.  The roles are unchanged
\* in every one of these cases.
C5_AuthorizationAmended ==
    /\ (msg = "freeze" /\ who # FreezeBefore) =>
            /\ result = (IF default_frozen THEN "NotFreezeId" ELSE "NotFreezable")
            /\ roles = before.roles
    /\ (msg \in {"modify_asset", "destroy_asset"} /\ who # ManagerBefore) =>
            (result = "NotManagerId" /\ roles = before.roles)
    /\ (msg = "revoke_asset" /\ who # ClawbackBefore) =>
            (result = "NotClawbackId" /\ roles = before.roles)

\* The former manager, replaced by a modify_asset, calls modify_asset again.
C5_Witness ==
    /\ msg = "modify_asset"
    /\ who # ManagerBefore
    /\ result = "NotManagerId"
    /\ Len(events) = 2
    /\ events[2].kind = "Modify"
    /\ events[2].manager_id # who

\* C6 as first stated: transfer(receiver, amount) fails with NotOptedIn whenever
\* receiver's opted-in flag is false, for every caller and every amount.
C6_TransferGating ==
    (msg = "transfer" /\ ~OptedInBefore(args.receiver)) => result = "NotOptedIn"

\* C6, amended: transfer(receiver, amount) fails whenever receiver's opted-in
\* flag is false: with NotOptedIn when the caller's balance >= amount, and with
\* NotEnoughBalance when the caller's balance < amount.
C6_TransferGatingAmended ==
    (msg = "transfer" /\ ~OptedInBefore(args.receiver)) =>
        result = (IF Stored(before.balances, who) >= args.amount
                  THEN "NotOptedIn" ELSE "NotEnoughBalance")

\* A transfer to another account, which has not opted in, by a sender that
\* holds the amount.
C6_Witness ==
    /\ msg = "transfer"
    /\ ~OptedInBefore(args.receiver)
    /\ args.receiver # who
    /\ Stored(before.balances, who) >= args.amount
    /\ args.amount > 0
    /\ result = "NotOptedIn"

C8_BalanceOf ==
    msg = "balance_of" =>
        /\ (result = "NotOptedIn") <=> ~OptedInBefore(args.account)
        /\ OptedInBefore(args.account) =>
            (result = "Ok" /\ value = Stored(before.balances, args.account))
        /\ NothingChanged

\* balance_of of an account that opted in, later opted out, and still has a
\* positive amount stored.
C8_Witness ==
    /\ msg = "balance_of"
    /\ args.account \in DOMAIN accounts_opted_in
    /\ ~is_opted_in(args.account)
    /\ Stored(balances, args.account) > 0
    /\ result = "NotOptedIn"

\* C9: opt_in by an identity whose opted-in flag is true returns AlreadyOptedIn
\* and leaves the state unchanged; by an identity whose flag is false it
\* succeeds and sets the flag.
C9_NoDoubleOptIn ==
    msg = "opt_in" =>
        IF OptedInBefore(who)
        THEN result = "AlreadyOptedIn" /\ NothingChanged
        ELSE result = "Ok" /\ is_opted_in(who)

\* The reserve account, opted in by construction, calls opt_in.
C9_Witness ==
    /\ msg = "opt_in"
    /\ who = reserve_id
    /\ Len(events) = 1
    /\ result = "AlreadyOptedIn"

\* C10: opt_out by an identity whose opted-in flag is false returns NotOptedIn
\* and leaves the state unchanged; by an opted-in identity it succeeds and
\* clears the flag.
C10_NoOrphanOptOut ==
    msg = "opt_out" =>
        IF ~OptedInBefore(who)
        THEN result = "NotOptedIn" /\ NothingChanged
        ELSE result = "Ok" /\ ~is_opted_in(who)

\* An identity that has already opted out calls opt_out again.
C10_Witness ==
    /\ msg = "opt_out"
    /\ who \in DOMAIN before.accounts_opted_in
    /\ ~OptedInBefore(who)
    /\ result = "NotOptedIn"

\* The frozen flag of an account when the last message was invoked.
FrozenBefore(account) == Get(before.frozen_holders, account, FALSE)

\* C11: on an asset constructed with default_frozen = false every call of
\* freeze fails with NotFreezable, whoever calls it and whatever the account and
\* the flag, and no account's frozen flag is ever true.
C11_FreezePolicy ==
    ~default_frozen =>
        /\ msg = "freeze" => result = "NotFreezable"
        /\ \A x \in Account : ~is_frozen(x)

\* The freeze role itself asks to freeze an account of a non-freezable asset.
C11_Witness ==
    /\ ~default_frozen
    /\ msg = "freeze"
    /\ who = FreezeBefore
    /\ args.freeze
    /\ result = "NotFreezable"

\* C12: on an asset with default_frozen = true, freeze(account, true) called by
\* the freeze role succeeds and sets the flag when the account is not frozen;
\* called on an account that is frozen it fails with AlreadyFrozen and the flag
\* stays true.
C12_SetFrozen ==
    (/\ msg = "freeze"
     /\ default_frozen
     /\ who = FreezeBefore
     /\ args.freeze) =>
        IF FrozenBefore(args.account)
        THEN result = "AlreadyFrozen" /\ is_frozen(args.account) /\ NothingChanged
        ELSE result = "Ok" /\ is_frozen(args.account)

\* The freeze role freezes the same account a second time.
C12_Witness ==
    /\ msg = "freeze"
    /\ default_frozen
    /\ who = FreezeBefore
    /\ args.freeze
    /\ FrozenBefore(args.account)
    /\ result = "AlreadyFrozen"
    /\ Len(events) = 2
    /\ events[2].kind = "Freeze"
    /\ events[2].account = args.account
    /\ events[2].freeze

\* C13: on an asset with default_frozen = true and called by the freeze role,
\* freeze(account, flag) fails with AlreadyFrozen exactly when the account's
\* current flag equals flag, and otherwise succeeds and stores flag; so
\* freeze(account, false) clears the flag of a frozen account and fails on an
\* account that is not frozen.
C13_StrictToggle ==
    (/\ msg = "freeze"
     /\ default_frozen
     /\ who = FreezeBefore) =>
        IF FrozenBefore(args.account) = args.freeze
        THEN result = "AlreadyFrozen" /\ NothingChanged
        ELSE result = "Ok" /\ is_frozen(args.account) = args.freeze

\* C14: a modify_asset call by the current manager always succeeds and sets
\* each of manager, reserve, freeze and clawback to the supplied identity, or to
\* the zero identity where none is supplied; balances, opted-in flags, frozen
\* flags and creator, total and default_frozen are unchanged.
C14_ModifyOverwrites ==
    (msg = "modify_asset" /\ who = ManagerBefore) =>
        /\ result = "Ok"
        /\ manager_id = unwrap_or(args.manager, ZeroId)
        /\ reserve_id = unwrap_or(args.reserve, ZeroId)
        /\ freeze_id = unwrap_or(args.freeze, ZeroId)
        /\ clawback_id = unwrap_or(args.clawback, ZeroId)
        /\ balances = before.balances
        /\ accounts_opted_in = before.accounts_opted_in
        /\ frozen_holders = before.frozen_holders
        /\ params = before.params
        /\ live

\* The manager omits a role that was held by a non-zero identity and supplies
\* another one.
C14_Witness ==
    /\ msg = "modify_asset"
    /\ who = ManagerBefore
    /\ result = "Ok"
    /\ args.freeze = None
    /\ FreezeBefore # ZeroId
    /\ args.clawback # None
    /\ total > 0

\* The last notification of the log.
LastEvent == events[Len(events)]

C16_DestroyedIsTerminal ==
    [][/\ live
       /\ ~live' => (msg' = "destroy_asset" /\ result' = "Ok")]_vars

\* A destroyed contract whose log ends with the Destruction notification.
C16_Witness ==
    /\ ~live
    /\ before.live
    /\ Len(events) = MaxEvents
    /\ LastEvent.kind = "Destruction"

\* C17: right after construction the reserve account, which is the supplied
\* reserve or else the constructing caller, is opted in and holds total; every
\* other account has balance 0 and is not opted in; no account is frozen;
\* manager, freeze and clawback are the supplied identities or else the zero
\* identity; and the log holds the Creation notification alone.
C17_InitialState ==
    msg = "new" =>
        LET reserve_ == unwrap_or(args.reserve, who) IN
        /\ reserve_id = reserve_
        /\ is_opted_in(reserve_)
        /\ Stored(balances, reserve_) = args.total
        /\ \A x \in Account \ {reserve_} :
               Stored(balances, x) = 0 /\ ~is_opted_in(x)
        /\ \A x \in Account : ~is_frozen(x)
        /\ manager_id = unwrap_or(args.manager, ZeroId)
        /\ freeze_id = unwrap_or(args.freeze, ZeroId)
        /\ clawback_id = unwrap_or(args.clawback, ZeroId)
        /\ creator = who
        /\ total = args.total
        /\ default_frozen = args.default_frozen
        /\ live
        /\ Len(events) = 1
        /\ events[1].kind = "Creation"

\* A caller that is not the zero identity constructs a non-empty asset and
\* omits the reserve and the manager.
C17_Witness ==
    /\ msg = "new"
    /\ who # ZeroId
    /\ args.reserve = None
    /\ args.manager = None
    /\ args.freeze # None
    /\ total > 0
    /\ Stored(balances, who) = total

\* The kind of notification each mutating message emits.
EventOf(m) ==
    CASE m = "opt_in" -> "OptIn"
      [] m = "opt_out" -> "OptOut"
      [] m = "transfer" -> "Transfer"
      [] m = "freeze" -> "Freeze"
      [] m = "modify_asset" -> "Modify"
      [] m = "revoke_asset" -> "Revoke"
      [] m = "destroy_asset" -> "Destruction"

\* C18: each successful opt_in, opt_out, transfer, freeze, modify_asset,
\* revoke_asset and destroy_asset appends exactly one notification, of its own
\* kind, to the log, and every other call after construction appends none; so
\* the log holds the Creation notification followed by one notification per
\* successful mutating call, in call order.
C18_OneEventPerMutation ==
    /\ msg = "new" => Len(events) = 1 /\ events[1].kind = "Creation"
    /\ (msg \in Mutating /\ result = "Ok") =>
           /\ Len(events) = Len(before.events) + 1
           /\ SubSeq(events, 1, Len(before.events)) = before.events
           /\ LastEvent.kind = EventOf(msg)
    /\ (msg # "new" /\ ~(msg \in Mutating /\ result = "Ok")) =>
           events = before.events

\* Two successful mutating calls of different kinds after construction.
C18_Witness ==
    /\ msg \in Mutating
    /\ result = "Ok"
    /\ Len(events) = 3
    /\ events[1].kind = "Creation"
    /\ events[2].kind = "OptOut"
    /\ events[3].kind = "Modify"

\* C19: a successful opt_in or opt_out changes the caller's opted-in flag and
\* nothing else of the ledger: every stored balance, every other account's
\* opted-in flag, all frozen flags and all roles are as before. So when the
\* account that held b opts out and then in again, it is opted in and its
\* stored balance, which is what balance_of returns, is b again; in a log of
\* Creation, OptOut, OptIn that account is the initial reserve and b is total.
C19_OptChangesOnlyFlag ==
    /\ (msg \in {"opt_in", "opt_out"} /\ result = "Ok") =>
           /\ is_opted_in(who) = (msg = "opt_in")
           /\ OptedInBefore(who) = (msg = "opt_out")
           /\ \A x \in Account \ {who} : is_opted_in(x) = OptedInBefore(x)
           /\ balances = before.balances
           /\ frozen_holders = before.frozen_holders
           /\ roles = before.roles
           /\ params = before.params
           /\ live
    /\ (/\ msg = "opt_in"
        /\ result = "Ok"
        /\ Len(before.events) = 2
        /\ before.events[2].kind = "OptOut"
        /\ before.events[2].account = who) =>
           /\ is_opted_in(who)
           /\ Stored(balances, who) = events[1].total

\* The reserve of a non-empty asset opts out and then in again.
C19_Witness ==
    /\ msg = "opt_in"
    /\ result = "Ok"
    /\ Len(before.events) = 2
    /\ before.events[2].kind = "OptOut"
    /\ before.events[2].account = who
    /\ total > 0
    /\ Stored(balances, who) = total

\* C20: is_destroyable() is true iff the creator's stored balance equals total,
\* and destroy_asset succeeds only in a state where is_destroyable() returns
\* true.
C20_DestroyablePredicts ==
    /\ is_destroyable <=> (Stored(balances, creator) = total)
    /\ (msg = "destroy_asset" /\ result = "Ok") =>
           Stored(before.balances, creator) = total

\* An entry of accounts_opted_in exists for the account: written for the
\* reserve by the constructor and for a caller by its opt_in (opt_out only
\* rewrites an entry that is there).
HasOptInRecord(account) == account \in DOMAIN accounts_opted_in

\* C21: in every reachable state an account that was never opted in, neither
\* as the reserve at construction nor by its own opt_in, has stored balance 0.
C21_OptInBeforeBalance ==
    \A x \in Account : ~HasOptInRecord(x) => Stored(balances, x) = 0

(* ------------------- the messages of account holders -------------------- *)

\* As Accepts, for runs of the messages below, which may be one step longer.
AcceptsHolder ==
    /\ live
    /\ Len(events) < MaxEvents + 1
    /\ msg = "new" \/ (msg \in Mutating /\ result = "Ok")

\* The messages that need no role: balance_of, opt_in, opt_out and transfer.
NextHolders ==
    \/ AcceptsHolder /\ \E caller, account \in Account :
            balance_of(caller, account)
    \/ AcceptsHolder /\ \E caller \in Account : opt_in(caller)
    \/ AcceptsHolder /\ \E caller \in Account : opt_out(caller)
    \/ AcceptsHolder /\ \E caller, receiver \in Account, amount \in Balance :
            transfer(caller, receiver, amount)

\* The behaviours of the contract in which only those messages are sent.
SpecHolders == Init /\ [][NextHolders]_vars

\* C22: a transfer of a positive amount never succeeds when the caller's
\* opted-in flag is false, as it is after the caller opted out while holding a
\* balance.
C22_SenderMustBeOptedIn ==
    (msg = "transfer" /\ result = "Ok" /\ args.amount > 0) =>
        OptedInBefore(who)

(* --------------- value movement on a ledger with freezes ---------------- *)

\* The messages of account holders with freeze and revoke_asset.
NextFrozen ==
    \/ NextHolders
    \/ AcceptsHolder /\ \E caller, account \in Account, freeze_ \in BOOLEAN :
            freeze(caller, account, freeze_)
    \/ AcceptsHolder /\ \E caller, receiver, recovation_target \in Account,
                            amount \in Balance :
            revoke_asset(caller, receiver, recovation_target, amount)

\* The behaviours of the contract in which only those messages are sent.
SpecFrozen == Init /\ [][NextFrozen]_vars

(* ------------- transfer and revoke_asset as pure functions -------------- *)

\* What a call returns and the balances it leaves.
Outcome(r, b) == [result |-> r, balances |-> b]

\* The outcomes of transfer, from everything it reads: the balances, the
\* opted-in flags, the caller and the arguments. An overflowing credit has the
\* two outcomes of Panic and of wrapping_add.
TransferOutcomes(b, opted, caller, receiver, amount) ==
    LET sender_balance == Get(b, caller, 0)
        debited == Insert(b, caller, sender_balance - amount)
        receiver_balance == Get(debited, receiver, 0)
    IN
    IF sender_balance < amount
    THEN {Outcome("NotEnoughBalance", b)}
    ELSE IF ~Get(opted, receiver, FALSE)
    THEN {Outcome("NotOptedIn", b)}
    ELSE IF receiver_balance + amount <= MaxBalance
    THEN {Outcome("Ok", Insert(debited, receiver, receiver_balance + amount))}
    ELSE {Outcome("Panic", b),
          Outcome("Ok", Insert(debited, receiver,
                               wrapping_add(receiver_balance, amount)))}

\* The outcomes of revoke_asset, from everything it reads: the balances, the
\* opted-in flags, the clawback role, the caller and the arguments.
RevokeOutcomes(b, opted, clawback, caller, receiver, recovation_target, amount) ==
    LET receiver_balance == Get(b, receiver, 0)
        debited == Insert(b, recovation_target, receiver_balance - amount)
    IN
    IF caller # clawback
    THEN {Outcome("NotClawbackId", b)}
    ELSE IF ~Get(opted, receiver, FALSE)
    THEN {Outcome("NotOptedIn", b)}
    ELSE IF receiver_balance < amount
    THEN {Outcome("NotEnoughBalance", b)}
    ELSE IF receiver_balance + amount <= MaxBalance
    THEN {Outcome("Ok", Insert(debited, receiver, receiver_balance + amount))}
    ELSE {Outcome("Panic", b),
          Outcome("Ok", Insert(debited, receiver,
                               wrapping_add(receiver_balance, amount)))}

\* C23: the frozen flags do not influence transfer and revoke_asset: the result
\* and the balances of every such call are those determined by the balances,
\* the opted-in flags, the clawback role, the caller and the arguments alone, so
\* two states that differ only in the frozen map give the same result and the
\* same balances; and the calls leave the frozen map as it was.
C23_FrozenNotConsulted ==
    /\ msg = "transfer" =>
           /\ Outcome(result, balances) \in
                  TransferOutcomes(before.balances, before.accounts_opted_in,
                                   who, args.receiver, args.amount)
           /\ frozen_holders = before.frozen_holders
    /\ msg = "revoke_asset" =>
           /\ Outcome(result, balances) \in
                  RevokeOutcomes(before.balances, before.accounts_opted_in,
                                 ClawbackBefore, who, args.receiver,
                                 args.recovation_target, args.amount)
           /\ frozen_holders = before.frozen_holders

\* An account whose frozen flag is true sends a positive amount.
C23_Witness ==
    /\ msg = "transfer"
    /\ result = "Ok"
    /\ args.amount > 0
    /\ FrozenBefore(who)
    /\ Stored(balances, who) < Stored(before.balances, who)

\* C24: in every reachable state every stored balance b satisfies
\* 0 <= b <= total, so no subtraction or addition of transfer and revoke_asset
\* leaves the Balance type.
C24_BalanceBounds ==
    /\ \A x \in Account :
           Stored(balances, x) >= 0 /\ Stored(balances, x) <= total
    /\ result # "Panic"

====
